---- MODULE Spec2Model ----
(***************************************************************************)
(* Model of the page controller of the "Decision Engine" front end         *)
(* (src/unnamed/part_001, the canonical page; src/unnamed/part_000 is the  *)
(* earlier variant with the same onAnalyze).                                *)
(*                                                                         *)
(* JavaScript strings are sequences of one-character strings, so that      *)
(* trim, toLowerCase, includes and template concatenation are computed.    *)
(* Characters outside ASCII are written as one element each: "a~" is a     *)
(* with tilde, "c," c with cedilla, "u'" u with acute, "e'" e with acute,   *)
(* "--" the em dash.                                                       *)
(* A value that may be null/undefined is a sequence of length 0 or 1.      *)
(***************************************************************************)
EXTENDS Integers, Sequences, FiniteSets, TLC

VARIABLES query, loading, data, error, subs, calls, call, ret

vars == <<query, loading, data, error, subs, calls, call, ret>>

ctlVars == <<query, loading, data, error, subs, calls>>

pureVars == <<call, ret>>

\* ------------------------------------------------------------ bounds

\* Number of onAnalyze invocations explored.
MaxSubs == 2

\* Largest score.total, place_score and confidence explored.
MaxScore == 100

\* ------------------------------------------------------------ optionals

None == <<>>

Some(x) == <<x>>

\* ------------------------------------------------------------ strings

Whitespace == {" ", "\t", "\n"}

RECURSIVE TrimStart(_)
TrimStart(s) ==
  IF Len(s) > 0 /\ Head(s) \in Whitespace THEN TrimStart(Tail(s)) ELSE s

RECURSIVE TrimEnd(_)
TrimEnd(s) ==
  IF Len(s) > 0 /\ s[Len(s)] \in Whitespace
  THEN TrimEnd(SubSeq(s, 1, Len(s) - 1))
  ELSE s

\* String.prototype.trim
Trim(s) == TrimEnd(TrimStart(s))

UpperChars ==
  <<"A", "B", "C", "D", "E", "F", "G", "H", "I", "J", "K", "L", "M", "N",
    "O", "P", "Q", "R", "S", "T", "U", "V", "W", "X", "Y", "Z", "A~", "C,">>

LowerChars ==
  <<"a", "b", "c", "d", "e", "f", "g", "h", "i", "j", "k", "l", "m", "n",
    "o", "p", "q", "r", "s", "t", "u", "v", "w", "x", "y", "z", "a~", "c,">>

LowerChar(c) ==
  IF \E i \in 1..Len(UpperChars) : UpperChars[i] = c
  THEN LowerChars[CHOOSE i \in 1..Len(UpperChars) : UpperChars[i] = c]
  ELSE c

\* String.prototype.toLowerCase
ToLowerCase(s) == [i \in 1..Len(s) |-> LowerChar(s[i])]

\* String.prototype.includes
Includes(s, sub) ==
  \E i \in 0..(Len(s) - Len(sub)) : SubSeq(s, i + 1, i + Len(sub)) = sub

DigitChars == <<"0", "1", "2", "3", "4", "5", "6", "7", "8", "9">>

RECURSIVE NumberToString(_)
\* `${n}` for a non-negative integer
NumberToString(n) ==
  IF n < 10 THEN <<DigitChars[n + 1]>>
  ELSE NumberToString(n \div 10) \o <<DigitChars[(n % 10) + 1]>>

\* a string is truthy when it is not empty
Truthy(s) == Len(s) > 0

\* ------------------------------------------------------------ literals

\* "Cole um endereço ou link do anúncio."
ValidationMsg ==
  <<"C", "o", "l", "e", " ", "u", "m", " ", "e", "n", "d", "e", "r", "e",
    "c,", "o", " ", "o", "u", " ", "l", "i", "n", "k", " ", "d", "o", " ",
    "a", "n", "u'", "n", "c", "i", "o", ".">>

\* "Erro HTTP "
HttpErrorPrefix == <<"E", "r", "r", "o", " ", "H", "T", "T", "P", " ">>

\* "Erro ao analisar."
FallbackMsg ==
  <<"E", "r", "r", "o", " ", "a", "o", " ", "a", "n", "a", "l", "i", "s",
    "a", "r", ".">>

\* "São Paulo"
City == <<"S", "a~", "o", " ", "P", "a", "u", "l", "o">>

\* the em dash placeholder
Dash == <<"--">>

\* ------------------------------------------------------------ inputs

\* texts the visitor can have typed in the input
Queries == {<<>>, <<" ", " ">>, <<"a">>, <<" ", "a", " ">>}

\* HTTP statuses the service answers with
Statuses == {200, 500}

\* "Bad city"
BadCity == <<"B", "a", "d", " ", "c", "i", "t", "y">>

\* bodies of a non-2xx answer
Bodies == {<<>>, BadCity}

\* "Failed to fetch"
FailedToFetch ==
  <<"F", "a", "i", "l", "e", "d", " ", "t", "o", " ", "f", "e", "t", "c", "h">>

\* values a rejected fetch / text() / json() throws: message is the
\* optional message of the thrown value
Thrown == {[message |-> None], [message |-> Some(<<>>)],
           [message |-> Some(FailedToFetch)]}

\* "Boa decis(a~)o"
LblBoa == <<"B", "o", "a", " ", "d", "e", "c", "i", "s", "a~", "o">>

RadarFull ==
  [impact |-> "risk", title |-> <<"t">>, date |-> Some(<<"d">>),
   why_it_matters |-> <<"w">>, source |-> Some(<<"s">>)]

RadarBare ==
  [impact |-> "monitor", title |-> <<"t">>, date |-> None,
   why_it_matters |-> <<"w">>, source |-> None]

\* AnalyzeResponse bodies of a 2xx answer
Responses ==
  {[request_id |-> <<"1">>,
    score |-> [total |-> 80, label |-> Some(LblBoa),
               place_score |-> Some(70), confidence |-> Some(90)],
    radar |-> <<RadarFull>>],
   [request_id |-> <<"2">>,
    score |-> [total |-> 40, label |-> Some(<<>>),
               place_score |-> None, confidence |-> None],
    radar |-> <<RadarBare>>]}

\* ------------------------------------------------------------ state updates

SetError(e) == [op |-> "setError", err |-> e, dat |-> None, ld |-> FALSE]

SetData(d) == [op |-> "setData", err |-> None, dat |-> d, ld |-> FALSE]

SetLoading(b) == [op |-> "setLoading", err |-> None, dat |-> None, ld |-> b]

\* the component state after one setState call
Apply(st, u) ==
  CASE u.op = "setError" -> [st EXCEPT !.error = u.err]
    [] u.op = "setData" -> [st EXCEPT !.data = u.dat]
    [] u.op = "setLoading" -> [st EXCEPT !.loading = u.ld]

RECURSIVE ApplyAll(_, _)
\* the component state after the setState calls us, in order
ApplyAll(st, us) ==
  IF us = <<>> THEN st ELSE ApplyAll(Apply(st, Head(us)), Tail(us))

\* ------------------------------------------------------------ onAnalyze

\* `Erro HTTP ${res.status}`
HttpErrorMsg(status) == HttpErrorPrefix \o NumberToString(status)

\* res.ok
Ok(status) == status >= 200 /\ status <= 299

\* new Error(m)
NewError(m) == [message |-> Some(m)]

\* the message of the thrown value with the fallback only for a missing
\* message: e?.message ?? "Erro ao analisar."
MessageOf_Nullish(e) ==
  IF e.message # None THEN e.message[1] ELSE FallbackMsg

\* e?.message || "Erro ao analisar."
MessageOf(e) ==
  IF e.message # None /\ Truthy(e.message[1]) THEN e.message[1] ELSE FallbackMsg

\* onAnalyze testing the query as typed, without trimming it
OnAnalyzeStart_NoTrim(qry) ==
  IF ~Truthy(qry)
  THEN [updates |-> <<SetError(None), SetData(None),
                      SetError(Some(ValidationMsg))>>,
        pc |-> "done", promise |-> "fulfilled", req |-> None]
  ELSE [updates |-> <<SetError(None), SetData(None), SetLoading(TRUE)>>,
        pc |-> "fetch", promise |-> "pending",
        req |-> Some([query |-> qry, city |-> City])]

\* onAnalyze without the setData(null) at its start
OnAnalyzeStart_NoClear(qry) ==
  LET q == Trim(qry) IN
  IF ~Truthy(q)
  THEN [updates |-> <<SetError(None), SetError(Some(ValidationMsg))>>,
        pc |-> "done", promise |-> "fulfilled", req |-> None]
  ELSE [updates |-> <<SetError(None), SetLoading(TRUE)>>,
        pc |-> "fetch", promise |-> "pending",
        req |-> Some([query |-> q, city |-> City])]

\* onAnalyze up to its first await: the setState calls, whether fetch is
\* called and with which body
OnAnalyzeStart(qry) ==
  LET q == Trim(qry) IN
  IF ~Truthy(q)
  THEN [updates |-> <<SetError(None), SetData(None),
                      SetError(Some(ValidationMsg))>>,
        pc |-> "done", promise |-> "fulfilled", req |-> None]
  ELSE [updates |-> <<SetError(None), SetData(None), SetLoading(TRUE)>>,
        pc |-> "fetch", promise |-> "pending",
        req |-> Some([query |-> q, city |-> City])]

\* a try block with the catch block but no finally block
CatchFinally_NoFinally(e) ==
  [updates |-> <<SetError(Some(MessageOf(e)))>>, promise |-> "fulfilled"]

\* the catch and finally blocks, for the value e thrown in the try block:
\* the setState calls, and how the promise of onAnalyze settles
CatchFinally(e) ==
  [updates |-> <<SetError(Some(MessageOf(e))), SetLoading(FALSE)>>,
   promise |-> "fulfilled"]

\* the non-2xx path ignoring the body text
OnTextResolved_StatusOnly(status, t) ==
  CatchFinally(NewError(HttpErrorMsg(status)))

\* after res.text() of a non-2xx answer: throw new Error(t || `Erro HTTP ...`)
OnTextResolved(status, t) ==
  CatchFinally(NewError(IF Truthy(t) THEN t ELSE HttpErrorMsg(status)))

\* the success path with the finally block run before setData
OnJsonResolved_LoadingFirst(json) ==
  [updates |-> <<SetLoading(FALSE), SetData(Some(json))>>,
   promise |-> "fulfilled"]

\* after res.json() of a 2xx answer: setData(json), then finally
OnJsonResolved(json) ==
  [updates |-> <<SetData(Some(json)), SetLoading(FALSE)>>,
   promise |-> "fulfilled"]

\* ------------------------------------------------------------ derived values

\* "boa decis(a~)o"
NeedleBoa == <<"b", "o", "a", " ", "d", "e", "c", "i", "s", "a~", "o">>

\* "aten(c,)(a~)o"
NeedleAtencao == <<"a", "t", "e", "n", "c,", "a~", "o">>

\* "neutro"
NeedleNeutro == <<"n", "e", "u", "t", "r", "o">>

\* "Boa decis(a~)o, com aten(c,)(a~)o"
TxtAtencao ==
  <<"B", "o", "a", " ", "d", "e", "c", "i", "s", "a~", "o", ",", " ", "c",
    "o", "m", " ", "a", "t", "e", "n", "c,", "a~", "o">>

\* "Neutro (precisa de mais dados)"
TxtNeutro ==
  <<"N", "e", "u", "t", "r", "o", " ", "(", "p", "r", "e", "c", "i", "s",
    "a", " ", "d", "e", " ", "m", "a", "i", "s", " ", "d", "a", "d", "o",
    "s", ")">>

\* "N(a~)o recomendado"
TxtNao ==
  <<"N", "a~", "o", " ", "r", "e", "c", "o", "m", "e", "n", "d", "a", "d",
    "o">>

Teal == "#0f766e"

Amber == "#a16207"

Gray == "#64748b"

Red == "#b91c1c"

\* the badge with the score thresholds of the earlier variant of the page
\* tried before the label patterns
badgeByLabel_Thresholds(label, fallbackScore) ==
  LET l == ToLowerCase(IF label # None /\ Truthy(label[1]) THEN label[1] ELSE <<>>) IN
  IF (Includes(l, NeedleBoa) /\ ~Includes(l, NeedleAtencao))
     \/ (~Includes(l, NeedleAtencao) /\ fallbackScore # None /\ fallbackScore[1] >= 75)
  THEN [text |-> LblBoa, color |-> Teal]
  ELSE IF Includes(l, NeedleAtencao)
          \/ (fallbackScore # None /\ fallbackScore[1] >= 55)
  THEN [text |-> TxtAtencao, color |-> Amber]
  ELSE IF Includes(l, NeedleNeutro)
  THEN [text |-> TxtNeutro, color |-> Gray]
  ELSE [text |-> TxtNao, color |-> Red]

\* the badge matching the label as it is written, without toLowerCase
badgeByLabel_CaseSensitive(label, fallbackScore) ==
  LET l == IF label # None /\ Truthy(label[1]) THEN label[1] ELSE <<>> IN
  IF Includes(l, NeedleBoa) /\ ~Includes(l, NeedleAtencao)
  THEN [text |-> LblBoa, color |-> Teal]
  ELSE IF Includes(l, NeedleAtencao)
          \/ (fallbackScore # None /\ fallbackScore[1] >= 65)
  THEN [text |-> TxtAtencao, color |-> Amber]
  ELSE IF Includes(l, NeedleNeutro)
  THEN [text |-> TxtNeutro, color |-> Gray]
  ELSE [text |-> TxtNao, color |-> Red]

\* badgeByLabel(label?, fallbackScore?)
badgeByLabel(label, fallbackScore) ==
  LET l == ToLowerCase(IF label # None /\ Truthy(label[1]) THEN label[1] ELSE <<>>) IN
  IF Includes(l, NeedleBoa) /\ ~Includes(l, NeedleAtencao)
  THEN [text |-> LblBoa, color |-> Teal]
  ELSE IF Includes(l, NeedleAtencao)
          \/ (fallbackScore # None /\ fallbackScore[1] >= 65)
  THEN [text |-> TxtAtencao, color |-> Amber]
  ELSE IF Includes(l, NeedleNeutro)
  THEN [text |-> TxtNeutro, color |-> Gray]
  ELSE [text |-> TxtNao, color |-> Red]

\* badge(score) of the earlier variant of the page
badge(score) ==
  IF score >= 75 THEN [text |-> LblBoa, color |-> Teal]
  ELSE IF score >= 55 THEN [text |-> TxtAtencao, color |-> Amber]
  ELSE [text |-> TxtNao, color |-> Red]

\* confidenceInfo(conf?)
confidenceInfo(conf) ==
  IF conf = None THEN [text |-> Dash, color |-> Gray]
  ELSE IF conf[1] >= 75 THEN [text |-> <<"A", "l", "t", "a">>, color |-> Teal]
  ELSE IF conf[1] >= 50 THEN [text |-> <<"M", "e'", "d", "i", "a">>, color |-> Amber]
  ELSE [text |-> <<"B", "a", "i", "x", "a">>, color |-> Red]

\* ------------------------------------------------------------ rendering

Max(a, b) == IF a >= b THEN a ELSE b

Min(a, b) == IF a <= b THEN a ELSE b

\* ProgressBar: the width of the bar, in percent
ProgressBar(value) == Max(0, Min(100, value))

\* an absent number rendered as nothing
NumberOrDash_Blank(x) == IF x # None THEN NumberToString(x[1]) ELSE <<>>

\* typeof x === "number" ? x : the em dash
NumberOrDash(x) == IF x # None THEN NumberToString(x[1]) ELSE Dash

\* the place_score / confidence mini-stats of the results header
MiniStats(d) ==
  LET conf == d.score.confidence
      placeScore == d.score.place_score IN
  [placeScore |-> NumberOrDash(placeScore),
   confidence |-> NumberOrDash(conf),
   confMeta |-> confidenceInfo(conf),
   bar |-> IF conf # None THEN Some(ProgressBar(conf[1])) ELSE None]

\* "Fonte: "
FontePrefix == <<"F", "o", "n", "t", "e", ":", " ">>

\* x && <div>..x..</div> for an optional string: the element when x is a
\* non-empty string, nothing otherwise
WhenTruthy(x, prefix) ==
  IF x # None /\ Truthy(x[1]) THEN Some(prefix \o x[1]) ELSE None

\* one item of the radar list: the elements rendered for it
RadarItem(n) ==
  [glyph |-> IF n.impact = "risk" THEN "red"
             ELSE IF n.impact = "monitor" THEN "yellow" ELSE "green",
   title |-> n.title,
   date |-> WhenTruthy(n.date, <<>>),
   why |-> n.why_it_matters,
   source |-> WhenTruthy(n.source, FontePrefix)]

\* the results section for the stored response d
Results(d) ==
  [total |-> NumberToString(d.score.total),
   badgeInfo |-> badgeByLabel(d.score.label, Some(d.score.total)),
   stats |-> MiniStats(d),
   radar |-> [i \in 1..Len(d.radar) |-> RadarItem(d.radar[i])]]

\* what Home renders for a component state: each panel is None when it is
\* not mounted
Home(st) ==
  [disabled |-> st.loading,
   banner |-> IF st.error # None /\ Truthy(st.error[1]) THEN st.error ELSE None,
   loadingPanel |-> st.loading,
   results |-> IF st.data # None THEN Some(Results(st.data[1])) ELSE None]

\* ------------------------------------------------------------ state machine

State == [error |-> error, data |-> data, loading |-> loading]

\* the component state becomes the result of the setState calls us
Commit(us) ==
  LET st == ApplyAll(State, us) IN
  /\ error' = st.error
  /\ data' = st.data
  /\ loading' = st.loading

NewSub(r) ==
  [pc |-> r.pc, promise |-> r.promise, req |-> r.req, status |-> 0,
   body |-> None, json |-> None, thrown |-> None, log |-> r.updates]

Init ==
  /\ query = <<>>
  /\ loading = FALSE
  /\ data = None
  /\ error = None
  /\ subs = <<>>
  /\ calls = <<>>
  /\ call = [fn |-> "none"]
  /\ ret = None

\* onChange of the input
SetQuery(v) ==
  /\ v # query
  /\ query' = v
  /\ UNCHANGED <<loading, data, error, subs, calls, pureVars>>

\* an invocation of onAnalyze, up to the first await
OnAnalyze ==
  /\ Len(subs) < MaxSubs
  /\ LET r == OnAnalyzeStart(query) IN
     /\ Commit(r.updates)
     /\ subs' = Append(subs, NewSub(r))
     /\ calls' = IF r.req = None THEN calls ELSE Append(calls, r.req[1])
  /\ UNCHANGED <<query, pureVars>>

\* fetch resolves with a response of the given status
FetchResolve(i, status) ==
  /\ subs[i].pc = "fetch"
  /\ subs' = [subs EXCEPT ![i].status = status,
                          ![i].pc = IF Ok(status) THEN "json" ELSE "text"]
  /\ UNCHANGED <<query, loading, data, error, calls, pureVars>>

\* fetch, res.text() or res.json() rejects with e
Reject(i, e) ==
  /\ subs[i].pc \in {"fetch", "text", "json"}
  /\ LET r == CatchFinally(e) IN
     /\ Commit(r.updates)
     /\ subs' = [subs EXCEPT ![i].pc = "done", ![i].promise = r.promise,
                             ![i].thrown = Some(e), ![i].log = @ \o r.updates]
  /\ UNCHANGED <<query, calls, pureVars>>

\* res.text() resolves with the body t of a non-2xx answer
TextResolve(i, t) ==
  /\ subs[i].pc = "text"
  /\ LET r == OnTextResolved(subs[i].status, t) IN
     /\ Commit(r.updates)
     /\ subs' = [subs EXCEPT ![i].pc = "done", ![i].promise = r.promise,
                             ![i].body = Some(t), ![i].log = @ \o r.updates]
  /\ UNCHANGED <<query, calls, pureVars>>

\* res.json() resolves, and the response is applied only when no newer
\* submission has been started
JsonResolve_LatestOnly(i, json) ==
  /\ subs[i].pc = "json"
  /\ LET r == OnJsonResolved(json)
         us == IF i = Len(subs) THEN r.updates ELSE <<>> IN
     /\ Commit(us)
     /\ subs' = [subs EXCEPT ![i].pc = "done", ![i].promise = r.promise,
                             ![i].json = Some(json), ![i].log = @ \o us]
  /\ UNCHANGED <<query, calls, pureVars>>

\* res.json() resolves with the parsed body
JsonResolve(i, json) ==
  /\ subs[i].pc = "json"
  /\ LET r == OnJsonResolved(json) IN
     /\ Commit(r.updates)
     /\ subs' = [subs EXCEPT ![i].pc = "done", ![i].promise = r.promise,
                             ![i].json = Some(json), ![i].log = @ \o r.updates]
  /\ UNCHANGED <<query, calls, pureVars>>

Next ==
  \/ \E v \in Queries : SetQuery(v)
  \/ OnAnalyze
  \/ \E i \in DOMAIN subs, s \in Statuses : FetchResolve(i, s)
  \/ \E i \in DOMAIN subs, e \in Thrown : Reject(i, e)
  \/ \E i \in DOMAIN subs, t \in Bodies : TextResolve(i, t)
  \/ \E i \in DOMAIN subs, j \in Responses : JsonResolve(i, j)

Spec == Init /\ [][Next]_vars

\* the network answers every call: fetch settles, and so does the reading
\* of the body
Settle(i) ==
  \/ \E s \in Statuses : FetchResolve(i, s)
  \/ \E e \in Thrown : Reject(i, e)
  \/ \E t \in Bodies : TextResolve(i, t)
  \/ \E j \in Responses : JsonResolve(i, j)

SpecLive == Spec /\ \A i \in 1..MaxSubs : WF_vars(i \in DOMAIN subs /\ Settle(i))

\* a click on the button, which is disabled while loading
OnAnalyzeClick ==
  /\ ~Home(State).disabled
  /\ OnAnalyze

NextButton ==
  \/ \E v \in Queries : SetQuery(v)
  \/ OnAnalyzeClick
  \/ \E i \in DOMAIN subs, s \in Statuses : FetchResolve(i, s)
  \/ \E i \in DOMAIN subs, e \in Thrown : Reject(i, e)
  \/ \E i \in DOMAIN subs, t \in Bodies : TextResolve(i, t)
  \/ \E i \in DOMAIN subs, j \in Responses : JsonResolve(i, j)

SpecButton == Init /\ [][NextButton]_vars

\* ------------------------------------------------------------ derived values, applied

\* "BOA DECIS(A~)O"
LblBoaUpper == <<"B", "O", "A", " ", "D", "E", "C", "I", "S", "A~", "O">>

\* "Neutro"
LblNeutro == <<"N", "e", "u", "t", "r", "o">>

\* "Aten(C,)(A~)O neutro"
LblAtencaoNeutro ==
  <<"A", "t", "e", "n", "C,", "A~", "O", " ", "n", "e", "u", "t", "r", "o">>

\* "Ruim"
LblRuim == <<"R", "u", "i", "m">>

\* "Aten(c,)(a~)o"
LblAtencao == <<"A", "t", "e", "n", "c,", "a~", "o">>

\* "Boa decis(a~)o neutro"
LblBoaNeutro == LblBoa \o <<" ", "n", "e", "u", "t", "r", "o">>

\* "Boa decis(a~)o, com aten(c,)(a~)o neutro"
LblAll == TxtAtencao \o <<" ", "n", "e", "u", "t", "r", "o">>

\* values of score.label: absent, "", and labels of each combination of the
\* patterns
Labels ==
  {None, Some(<<>>), Some(LblBoa), Some(LblBoaUpper), Some(TxtAtencao),
   Some(LblNeutro), Some(LblAtencaoNeutro), Some(LblRuim), Some(LblAtencao),
   Some(LblBoaNeutro), Some(LblAll)}

\* values of an optional 0..100 number
OptScores == {None} \cup {Some(n) : n \in 0..MaxScore}

\* values of an optional string of a radar item
OptTexts == {None, Some(<<>>), Some(<<"x">>)}

\* radar items with every combination of the optional fields
RadarItems ==
  {[impact |-> im, title |-> <<"t">>, date |-> d, why_it_matters |-> <<"w">>,
    source |-> src] :
     im \in {"positive", "monitor", "risk"}, d \in OptTexts, src \in OptTexts}

\* the calls explored: badgeByLabel on a label and a score, the mini-stats
\* of a score, one radar item
Calls ==
  {[fn |-> "badgeByLabel", label |-> l, total |-> t] :
     l \in Labels, t \in OptScores}
    \cup {[fn |-> "MiniStats", place_score |-> ps, confidence |-> c] :
            ps \in {None, Some(0), Some(MaxScore)}, c \in OptScores}
    \cup {[fn |-> "RadarItem", item |-> n] : n \in RadarItems}

InitRender ==
  /\ query = <<>>
  /\ loading = FALSE
  /\ data = None
  /\ error = None
  /\ subs = <<>>
  /\ calls = <<>>
  /\ call \in Calls
  /\ ret = None

\* badgeByLabel is applied to the label and the score
BadgeCall ==
  /\ call.fn = "badgeByLabel" /\ ret = None
  /\ ret' = Some(badgeByLabel(call.label, call.total))
  /\ UNCHANGED <<ctlVars, call>>

\* confidenceInfo and the mini-stats are computed for the score
StatsCall ==
  /\ call.fn = "MiniStats" /\ ret = None
  /\ ret' = Some(MiniStats([score |-> [place_score |-> call.place_score,
                                       confidence |-> call.confidence]]))
  /\ UNCHANGED <<ctlVars, call>>

\* the radar item is rendered
RadarCall ==
  /\ call.fn = "RadarItem" /\ ret = None
  /\ ret' = Some(RadarItem(call.item))
  /\ UNCHANGED <<ctlVars, call>>

NextRender == BadgeCall \/ StatsCall \/ RadarCall

SpecRender == InitRender /\ [][NextRender]_vars

\* ------------------------------------------------------------ properties

\* submissions whose network call is pending
Pending(i) == subs[i].pc \in {"fetch", "text", "json"}

\* the step is an invocation of onAnalyze
Invoked == Len(subs') = Len(subs) + 1

\* the step completes submission i
Completes(i) == Pending(i) /\ subs'[i].pc = "done"

\* C1: in every state, another submission in flight or not, an invocation of
\* onAnalyze with a query that trims to the empty string issues no network
\* call and ends with error equal to the fixed validation message.
C1_EmptyQueryRejected ==
  [][(Invoked /\ ~Truthy(Trim(query)))
       => /\ calls' = calls
          /\ subs'[Len(subs')].req = None
          /\ subs'[Len(subs')].pc = "done"
          /\ error' = Some(ValidationMsg)]_vars

\* a whitespace-only query was submitted while an earlier submission was in
\* flight
C1_Witness ==
  /\ Len(subs) = 2
  /\ Pending(1)
  /\ subs[2].req = None
  /\ query = <<" ", " ">>
  /\ Len(calls) = 1
  /\ error = Some(ValidationMsg)

\* C2: when a submission's call returns 2xx with body R, then on completion
\* of that submission data equals R and error is absent.
C2_SuccessStoresDataAndNoError ==
  [][\A i \in DOMAIN subs :
       (Completes(i) /\ subs'[i].json # None)
         => (data' = subs'[i].json /\ error' = None)]_vars

\* C3: on the non-2xx path a non-empty body text becomes error verbatim, an
\* empty body gives an error that contains the status in decimal, and the
\* submission does not set data.
C3_ServerErrorMessage ==
  [][\A i \in DOMAIN subs :
       (Completes(i) /\ subs'[i].body # None)
         => /\ ~Ok(subs[i].status)
            /\ IF Truthy(subs'[i].body[1])
               THEN error' = subs'[i].body
               ELSE /\ error' # None
                    /\ Includes(error'[1], NumberToString(subs[i].status))
            /\ data' = data
            /\ \A k \in DOMAIN subs'[i].log :
                 subs'[i].log[k].op = "setData" => subs'[i].log[k].dat = None]_vars

\* one submission answered 500 "Bad city", a later one 500 with an empty body
C3_Witness ==
  /\ Len(subs) = 2
  /\ subs[1].body = Some(BadCity)
  /\ subs[2].body = Some(<<>>)
  /\ subs[2].status = 500
  /\ error = Some(HttpErrorPrefix \o <<"5", "0", "0">>)
  /\ data = None

\* C4: loading is true exactly when some submission's network call is
\* pending.
C4_LoadingIffPending ==
  loading <=> (\E i \in DOMAIN subs : Pending(i))

\* C6: every invocation of onAnalyze discards the stored result, and data
\* then stays absent until that submission or a later one stores a response:
\* a response is stored only by the newest submission.
C6_ResultDiscardedUntilNewerStore ==
  [][/\ Invoked => data' = None
     /\ \A i \in DOMAIN subs :
          (Completes(i) /\ subs'[i].json # None) => i = Len(subs)]_vars

\* the updates of a submission that passed validation, as far as it has got
UpdatesInOrder(s) ==
  LET L == s.log IN
  /\ Len(L) >= 3
  /\ L[1] = SetError(None)
  /\ L[2] = SetData(None)
  /\ L[3] = SetLoading(TRUE)
  /\ s.pc # "done" => Len(L) = 3
  /\ s.pc = "done" =>
       /\ Len(L) = 5
       /\ \/ L[4].op = "setData" /\ L[4].dat # None
          \/ L[4].op = "setError" /\ L[4].err # None
       /\ L[5] = SetLoading(FALSE)

\* C7: the updates of each submission that passes validation are applied in
\* the order clear error, clear data, loading on, then exactly one of data
\* or error, then loading off.
C7_UpdateOrder ==
  \A i \in DOMAIN subs : subs[i].req # None => UpdatesInOrder(subs[i])

\* one submission completed with a response and another with an error
C7_Witness ==
  /\ Len(subs) = 2
  /\ subs[1].pc = "done" /\ subs[1].json # None
  /\ subs[1].log[4].op = "setData"
  /\ subs[2].pc = "done" /\ subs[2].req # None /\ subs[2].json = None
  /\ subs[2].log[4].op = "setError"

\* the panels Home mounts for the current state
Panels ==
  LET h == Home(State) IN
  (IF h.banner # None THEN {"error"} ELSE {})
    \cup (IF h.loadingPanel THEN {"loading"} ELSE {})
    \cup (IF h.results # None THEN {"results"} ELSE {})

\* C8: after every transition at most one of the error banner, the loading
\* panel and the results section is visible.
C8_AtMostOnePanel == Cardinality(Panels) <= 1

\* the error a completed submission stored with its last setError call
LastError(s) ==
  LET k == CHOOSE k \in DOMAIN s.log :
             /\ s.log[k].op = "setError"
             /\ \A m \in DOMAIN s.log : s.log[m].op = "setError" => m <= k
  IN s.log[k].err

\* the last setState call of a completed submission
LastUpdate(s) == s.log[Len(s.log)]

\* C9: every submission that issued a network call and whose call settles
\* ends with loading set to false, on the success, the non-2xx and the
\* transport or parse failure paths; a failure is stored as a non-empty error
\* message and the promise of onAnalyze is never rejected.  Under a network
\* that answers, every such submission gets there.
C9_AlwaysLoadingOff ==
  /\ [][\A i \in DOMAIN subs :
          Completes(i)
            => /\ loading' = FALSE
               /\ LastUpdate(subs'[i]) = SetLoading(FALSE)
               /\ subs'[i].promise = "fulfilled"
               /\ subs'[i].json = None
                    => (error' # None /\ Truthy(error'[1]))]_vars
  /\ \A i \in 1..MaxSubs :
       (i \in DOMAIN subs /\ Pending(i))
         ~> (i \in DOMAIN subs /\ subs[i].pc = "done"
             /\ LastUpdate(subs[i]) = SetLoading(FALSE))

\* one submission failed in transport with no message, another got a 500
\* answer, and loading is off
C9_Witness ==
  /\ Len(subs) = 2
  /\ subs[1].thrown = Some([message |-> None])
  /\ subs[2].body # None
  /\ subs[1].promise = "fulfilled" /\ subs[2].promise = "fulfilled"
  /\ ~loading
  /\ error # None

\* the last call was badgeByLabel(label, total)
BadgeOf(label, total) ==
  /\ call.fn = "badgeByLabel" /\ call.label = label /\ call.total = total
  /\ ret # None

\* C5 as stated: label "Boa decis(a~)o, com aten(c,)(a~)o" gives the amber
\* badge of that text, label "" with total 80 gives the teal "Boa
\* decis(a~)o", label "" with total 40 gives the red "N(a~)o recomendado".
C5_BadgeExamplesAsStated ==
  /\ BadgeOf(Some(TxtAtencao), Some(80)) => ret[1] = [text |-> TxtAtencao, color |-> Amber]
  /\ BadgeOf(Some(<<>>), Some(80)) => ret[1] = [text |-> LblBoa, color |-> Teal]
  /\ BadgeOf(Some(<<>>), Some(40)) => ret[1] = [text |-> TxtNao, color |-> Red]

\* C5, amended: label "Boa decis(a~)o, com aten(c,)(a~)o" gives the amber
\* badge of that text for every total, label "" with total 80 gives the same
\* amber badge, label "" with total 40 gives the red "N(a~)o recomendado".
C5_BadgeExamples ==
  /\ (call.fn = "badgeByLabel" /\ call.label = Some(TxtAtencao) /\ ret # None)
       => ret[1] = [text |-> TxtAtencao, color |-> Amber]
  /\ BadgeOf(Some(<<>>), Some(80)) => ret[1] = [text |-> TxtAtencao, color |-> Amber]
  /\ BadgeOf(Some(<<>>), Some(40)) => ret[1] = [text |-> TxtNao, color |-> Red]

\* the badge was derived for label "" and total 80
C5_Witness == BadgeOf(Some(<<>>), Some(80)) /\ ret[1].color = Amber

\* the last call rendered the mini-stats of a score
StatsOf == call.fn = "MiniStats" /\ ret # None

\* the last call rendered a radar item
RadarOf == call.fn = "RadarItem" /\ ret # None

\* C10 as stated: absent place_score, confidence, radar date and radar
\* source are each rendered as the em dash.
C10_AbsentRendersDashAsStated ==
  /\ (StatsOf /\ call.place_score = None) => ret[1].placeScore = Dash
  /\ (StatsOf /\ call.confidence = None) => ret[1].confidence = Dash
  /\ (RadarOf /\ call.item.date = None) => ret[1].date = Some(Dash)
  /\ (RadarOf /\ call.item.source = None) => ret[1].source = Some(FontePrefix \o Dash)

\* C10, amended: absent place_score and confidence are rendered as the em
\* dash (the confidence tier too); for an absent date or source of a radar
\* item no element is rendered, and a present non-empty one is rendered as
\* it is.
C10_AbsentRendersDash ==
  /\ (StatsOf /\ call.place_score = None) => ret[1].placeScore = Dash
  /\ (StatsOf /\ call.confidence = None)
       => (ret[1].confidence = Dash /\ ret[1].confMeta.text = Dash /\ ret[1].bar = None)
  /\ (StatsOf /\ call.place_score # None)
       => ret[1].placeScore = NumberToString(call.place_score[1])
  /\ (RadarOf /\ call.item.date = None) => ret[1].date = None
  /\ (RadarOf /\ call.item.source = None) => ret[1].source = None
  /\ (RadarOf /\ call.item.date = Some(<<"x">>)) => ret[1].date = Some(<<"x">>)

\* a score without place_score and confidence was rendered
C10_Witness ==
  /\ StatsOf
  /\ call.place_score = None
  /\ call.confidence = None
  /\ ret[1].placeScore = Dash

\* which patterns each label explored contains, letter case ignored:
\* <<"boa decis(a~)o", "aten(c,)(a~)o", "neutro">>
PatternsOf(label) ==
  CASE label = None -> <<FALSE, FALSE, FALSE>>
    [] label = Some(<<>>) -> <<FALSE, FALSE, FALSE>>
    [] label = Some(LblRuim) -> <<FALSE, FALSE, FALSE>>
    [] label = Some(LblBoa) -> <<TRUE, FALSE, FALSE>>
    [] label = Some(LblBoaUpper) -> <<TRUE, FALSE, FALSE>>
    [] label = Some(LblAtencao) -> <<FALSE, TRUE, FALSE>>
    [] label = Some(LblNeutro) -> <<FALSE, FALSE, TRUE>>
    [] label = Some(TxtAtencao) -> <<TRUE, TRUE, FALSE>>
    [] label = Some(LblBoaNeutro) -> <<TRUE, FALSE, TRUE>>
    [] label = Some(LblAtencaoNeutro) -> <<FALSE, TRUE, TRUE>>
    [] label = Some(LblAll) -> <<TRUE, TRUE, TRUE>>

\* badgeByLabel has returned for the call
BadgeReturned == call.fn = "badgeByLabel" /\ ret # None

\* C11: score.total is only a fallback: a label that contains "neutro" and
\* not "aten(c,)(a~)o" (and not "boa decis(a~)o") gives the gray "Neutro
\* (precisa de mais dados)" for every total in 0..100, and a label matching
\* no pattern with a total below 65 gives the red "N(a~)o recomendado".
C11_TotalOnlyFallback ==
  BadgeReturned =>
    LET p == PatternsOf(call.label) IN
    /\ (p = <<FALSE, FALSE, TRUE>> /\ call.total # None)
         => ret[1] = [text |-> TxtNeutro, color |-> Gray]
    /\ (p = <<FALSE, FALSE, FALSE>> /\ call.total # None /\ call.total[1] < 65)
         => ret[1] = [text |-> TxtNao, color |-> Red]

\* the badge the four rules give, the first matching one winning
FirstRule(p, total) ==
  IF p[1] /\ ~p[2] THEN [text |-> LblBoa, color |-> Teal]
  ELSE IF p[2] \/ (total # None /\ total[1] >= 65)
  THEN [text |-> TxtAtencao, color |-> Amber]
  ELSE IF p[3] THEN [text |-> TxtNeutro, color |-> Gray]
  ELSE [text |-> TxtNao, color |-> Red]

\* C12: for every combination of the three patterns in the label (letter
\* case ignored) and every total in 0..100 or absent, badgeByLabel returns
\* the first matching of: "boa decis(a~)o" without "aten(c,)(a~)o" teal;
\* "aten(c,)(a~)o" or total >= 65 amber; "neutro" gray; otherwise red.
C12_FirstMatchingRule ==
  BadgeReturned => ret[1] = FirstRule(PatternsOf(call.label), call.total)

\* an upper-case label matched the first rule, and a "neutro" label with a
\* total of 65 got the amber badge of the second rule
C12_Witness ==
  /\ BadgeReturned
  /\ \/ call.label = Some(LblBoaUpper) /\ ret[1].color = Teal
     \/ call.label = Some(LblNeutro) /\ call.total = Some(65) /\ ret[1].color = Amber

\* C13: overlapping submissions are not guarded.  Whenever the call of a
\* submission settles after a newer submission has already completed, the
\* older one's outcome is still applied: its response becomes data, or its
\* message becomes error.
C13_OlderOutcomeApplied ==
  [][\A i \in DOMAIN subs :
       (/\ Completes(i)
        /\ \E j \in DOMAIN subs : j > i /\ subs[j].req # None /\ subs[j].pc = "done")
         => IF subs'[i].json # None
            THEN data' = subs'[i].json
            ELSE error' = LastError(subs'[i])]_vars

\* A was started, B was started before A's call resolved, B's response was
\* applied first and A's afterwards: data is A's response and not B's
C13_Witness ==
  /\ Len(subs) = 2
  /\ subs[1].pc = "done" /\ subs[2].pc = "done"
  /\ subs[1].json # None /\ subs[2].json # None
  /\ subs[1].json # subs[2].json
  /\ data = subs[1].json
  /\ Len(calls) = 2

\* the message the claim gives for a thrown value
ExpectedMessage(e) ==
  CASE e = [message |-> None] -> FallbackMsg
    [] e = [message |-> Some(<<>>)] -> FallbackMsg
    [] e = [message |-> Some(FailedToFetch)] -> FailedToFetch

\* C14: when fetch, res.text() or res.json() rejects, error becomes the
\* failure's message when it is non-empty and "Erro ao analisar." when the
\* failure has no message; the submission does not set data and error is not
\* left absent.
C14_TransportErrorMessage ==
  [][\A i \in DOMAIN subs :
       (Completes(i) /\ subs'[i].thrown # None)
         => /\ error' = Some(ExpectedMessage(subs'[i].thrown[1]))
            /\ Truthy(error'[1])
            /\ data' = data
            /\ \A k \in DOMAIN subs'[i].log :
                 subs'[i].log[k].op = "setData" => subs'[i].log[k].dat = None]_vars

\* a 2xx body failed to parse with an empty message, after a fetch that
\* failed with "Failed to fetch"
C14_Witness ==
  /\ Len(subs) = 2
  /\ subs[1].thrown = Some([message |-> Some(FailedToFetch)])
  /\ subs[1].status = 0
  /\ subs[2].thrown = Some([message |-> Some(<<>>)])
  /\ subs[2].status = 200
  /\ error = Some(FallbackMsg)
  /\ data = None

\* C15: when onAnalyze is invoked only while loading is false, loading
\* implies that data and error are both absent, and when loading is false
\* data and error are not both present.
C15_ButtonInvariant ==
  /\ loading => (data = None /\ error = None)
  /\ ~loading => ~(data # None /\ error # None)

\* a second click after a result was stored: the result is cleared while the
\* new call is pending
C15_Witness ==
  /\ Len(subs) = 2
  /\ subs[1].json # None
  /\ Pending(2)
  /\ loading
  /\ data = None

====
